---- MODULE Spec2Model ----
(***************************************************************************)
(* pandoc-fignos 2.0.0b1 (src/pandoc_fignos.py): figure numbering and      *)
(* reference resolution as a state machine.  One run of main() reads a     *)
(* document, resolves the metadata (process), walks the blocks once with   *)
(* process_figures (pass 1), walks them again with process_refs /          *)
(* replace_refs (pass 2), calls add_tex for the TeX targets and dumps the  *)
(* result.                                                                 *)
(*                                                                         *)
(* Python strings are sequences of one-character strings, so that prefix   *)
(* tests, quote stripping, str() and title() are computed and not assumed. *)
(***************************************************************************)
EXTENDS Integers, Sequences, FiniteSets, TLC

(* ------------------------------------------------------------------ *)
(* Bounds of the model                                                 *)
(* ------------------------------------------------------------------ *)

\* Longest document (number of top-level blocks) of the numbering runs.
MaxDoc == 3

\* Longest document of the configuration runs (SpecMeta).
MaxMetaDoc == 2

\* Longest document of the tag runs (SpecTags).
MaxTagDoc == 2

(* ------------------------------------------------------------------ *)
(* Strings                                                             *)
(* ------------------------------------------------------------------ *)

DQ == "\""
SQ == "'"
\* The curly quotes, each one character of a tag.
LDQUO == "ldquo"
RDQUO == "rdquo"

\* str.startswith
StartsWith(s, p) ==
    /\ Len(s) >= Len(p)
    /\ \A k \in 1..Len(p) : s[k] = p[k]

\* str.endswith
EndsWith(s, p) ==
    /\ Len(s) >= Len(p)
    /\ \A k \in 1..Len(p) : s[Len(s) - Len(p) + k] = p[k]

\* str.lstrip(c) / str.rstrip(c) / str.strip(c) for a one-character c:
\* every leading and every trailing c goes, not only one.
RECURSIVE LStrip(_, _)
LStrip(s, c) == IF s # <<>> /\ Head(s) = c THEN LStrip(Tail(s), c) ELSE s

RECURSIVE RStrip(_, _)
RStrip(s, c) ==
    IF s # <<>> /\ s[Len(s)] = c THEN RStrip(SubSeq(s, 1, Len(s) - 1), c) ELSE s

Strip(s, c) == RStrip(LStrip(s, c), c)

DigitChar(d) ==
    CASE d = 0 -> "0" [] d = 1 -> "1" [] d = 2 -> "2" [] d = 3 -> "3"
      [] d = 4 -> "4" [] d = 5 -> "5" [] d = 6 -> "6" [] d = 7 -> "7"
      [] d = 8 -> "8" [] OTHER -> "9"

\* str(n) and '%d' % n for n >= 0
RECURSIVE IntToStr(_)
IntToStr(n) ==
    IF n < 10 THEN <<DigitChar(n)>>
    ELSE IntToStr(n \div 10) \o <<DigitChar(n % 10)>>

LowerLetters == <<"a", "b", "c", "e", "f", "g", "i", "r", "s", "u", "x">>
UpperLetters == <<"A", "B", "C", "E", "F", "G", "I", "R", "S", "U", "X">>

IsLower(c) == \E k \in 1..Len(LowerLetters) : LowerLetters[k] = c
IsUpper(c) == \E k \in 1..Len(UpperLetters) : UpperLetters[k] = c
IsCased(c) == IsLower(c) \/ IsUpper(c)

ToUpper(c) ==
    IF IsLower(c)
    THEN UpperLetters[CHOOSE k \in 1..Len(LowerLetters) : LowerLetters[k] = c]
    ELSE c

ToLower(c) ==
    IF IsUpper(c)
    THEN LowerLetters[CHOOSE k \in 1..Len(UpperLetters) : UpperLetters[k] = c]
    ELSE c

\* str.title(): a cased character is upper-cased after an uncased one (or at
\* the start) and lower-cased after a cased one.
Title(s) ==
    [k \in 1..Len(s) |->
        IF k > 1 /\ IsCased(s[k - 1]) THEN ToLower(s[k]) ELSE ToUpper(s[k])]

\* Python's < on strings of the version alphabet (digits and the dot).
CharOrd(c) ==
    CASE c = "." -> 46 [] c = "0" -> 48 [] c = "1" -> 49 [] c = "2" -> 50
      [] c = "3" -> 51 [] c = "4" -> 52 [] c = "5" -> 53 [] c = "6" -> 54
      [] c = "7" -> 55 [] c = "8" -> 56 [] OTHER -> 57

RECURSIVE StrLT(_, _)
StrLT(a, b) ==
    IF b = <<>> THEN FALSE
    ELSE IF a = <<>> THEN TRUE
    ELSE IF CharOrd(Head(a)) # CharOrd(Head(b))
         THEN CharOrd(Head(a)) < CharOrd(Head(b))
    ELSE StrLT(Tail(a), Tail(b))

(* ------------------------------------------------------------------ *)
(* Program constants                                                   *)
(* ------------------------------------------------------------------ *)

\* LABEL_PATTERN = re.compile(r'(fig:[\w/-]*)'); re.match anchors at the
\* start and the starred class matches the empty suffix, so an identifier
\* matches exactly when it starts with fig:
FIG_PREFIX == <<"f", "i", "g", ":">>

\* Mutant of LABEL_PATTERN_match: the prefix is optional in the pattern, so
\* every identifier matches.
LABEL_PATTERN_match_Any(id) == TRUE

LABEL_PATTERN_match(id) == StartsWith(id, FIG_PREFIX)

TEX_FMTS == {"latex", "beamer"}
HTML_FMTS == {"html", "html5", "epub", "epub2", "epub3"}
\* the formats of line 179: tags are hard-coded for these
SECTAG_FMTS == HTML_FMTS \cup {"docx"}

FIGURE == <<"F", "i", "g", "u", "r", "e">>
DEFAULT_PLUSNAME == << <<"f", "i", "g", ".">>, <<"f", "i", "g", "s", ".">> >>
DEFAULT_STARNAME == << FIGURE, <<"F", "i", "g", "u", "r", "e", "s">> >>

V1_16 == <<"1", ".", "1", "6">>
V1_17 == <<"1", ".", "1", "7">>

DEFAULT_PLUSNAME_ELTS ==
    << [isStr |-> TRUE, s |-> DEFAULT_PLUSNAME[1]], [isStr |-> TRUE, s |-> DEFAULT_PLUSNAME[2]] >>
DEFAULT_STARNAME_ELTS ==
    << [isStr |-> TRUE, s |-> DEFAULT_STARNAME[1]], [isStr |-> TRUE, s |-> DEFAULT_STARNAME[2]] >>

\* cursec = None
None == <<"N", "o", "n", "e">>

(* ------------------------------------------------------------------ *)
(* The input: target format, pandoc version, metadata, document        *)
(* ------------------------------------------------------------------ *)

\* Inline elements (pandocfilters Str, Space, RawInline, Math).
Str(cs) == [t |-> "Str", f |-> "", c |-> cs]
Space == [t |-> "Space", f |-> "", c |-> <<>>]
RawInline(fm, cs) == [t |-> "RawInline", f |-> fm, c |-> cs]
Math(cs) == [t |-> "InlineMath", f |-> "", c |-> cs]

\* The caption every figure of the input carries.
CAPTION == << Str(<<"c", "a", "p">>) >>

\* A top-level block of the document.  t = "Fig" is a Para holding exactly
\* one Image whose title starts with fig: (the shape process_figures tests);
\* t = "Cite" is a paragraph holding the reference placeholder @<id>;
\* t = "Other" is any other block.  hasAttrs is FALSE for an Image with two
\* components (no attributes attached); secno is the value insert_secnos
\* stamped on the attributes.
MkNode(t, hasAttrs, id, secno, hasTag, tag, caption) ==
    [t |-> t, hasAttrs |-> hasAttrs, id |-> id, secno |-> secno,
     hasTag |-> hasTag, tag |-> tag, caption |-> caption]

OtherNode == MkNode("Other", FALSE, <<>>, <<>>, FALSE, <<>>, <<>>)
CiteNode(label) == MkNode("Cite", FALSE, label, <<>>, FALSE, <<>>, <<>>)
FigNoAttrs == MkNode("Fig", FALSE, <<>>, <<>>, FALSE, <<>>, CAPTION)
FigNode(id, secno, hasTag, tag) ==
    MkNode("Fig", TRUE, id, secno, hasTag, tag, CAPTION)

FIG_A == FIG_PREFIX \o <<"a">>
FIG_B == FIG_PREFIX \o <<"b">>
BAD_ID == <<"x">>
TAG_S1 == <<"S", "1">>

SecIds == { <<"1">>, <<"2">> }

\* Figures of the numbering runs: two authored labels and the bare prefix,
\* two sections, untagged; fig:a also tagged S1.
NumberingFigs ==
    { FigNode(id, s, FALSE, <<>>) : id \in {FIG_A, FIG_B, FIG_PREFIX}, s \in SecIds }
    \cup { FigNode(FIG_A, s, TRUE, TAG_S1) : s \in SecIds }

\* Figures of the configuration runs: a numbered, a tagged, an anonymous
\* figure and one with an empty tag.
ConfigFigs ==
    { FigNode(FIG_A, <<"1">>, FALSE, <<>>),
      FigNode(FIG_A, <<"2">>, TRUE, TAG_S1),
      FigNode(FIG_PREFIX, <<"1">>, FALSE, <<>>),
      FigNode(FIG_B, <<"1">>, TRUE, <<>>) }

FIG_E == FIG_PREFIX \o <<"e">>
MATH_TAG == <<"$", "x", " ", "y", "$">>

\* Figures of the tag runs: fig:e with the tag S1 bare, in straight double
\* quotes, in two layers of them, in straight single quotes and in curly
\* quotes, with a tag between $ markers, and an untagged fig:a.
TagFigs ==
    { FigNode(FIG_E, <<"1">>, TRUE, tg) :
        tg \in { TAG_S1,
                 <<DQ>> \o TAG_S1 \o <<DQ>>,
                 <<DQ, DQ>> \o TAG_S1 \o <<DQ, DQ>>,
                 <<SQ>> \o TAG_S1 \o <<SQ>>,
                 <<LDQUO>> \o TAG_S1 \o <<RDQUO>>,
                 MATH_TAG } }
    \cup { FigNode(FIG_A, <<"1">>, FALSE, <<>>) }

\* Blocks every run may hold: a non-figure block, a reference to fig:a, a
\* figure whose identifier is not a figure label.
CommonNodes == { OtherNode, CiteNode(FIG_A), FigNode(BAD_ID, <<"1">>, FALSE, <<>>) }

\* An Image has two components only for pandoc < 1.16 (Image = elt('Image', 2),
\* line 545); later versions always carry attributes.
NodesFor(version, figs) ==
    figs \cup CommonNodes \cup (IF StrLT(version, V1_16) THEN {FigNoAttrs} ELSE {})

\* All documents of at most n blocks over the nodes ns.
DocsUpTo(ns, n) == UNION { [1..k -> ns] : k \in 0..n }

\* A metadata option: absent, or present with a value.
Absent == [p |-> FALSE, isList |-> FALSE, b |-> FALSE, n |-> 0, s |-> <<>>, forms |-> <<>>]
BoolOpt(v) == [Absent EXCEPT !.p = TRUE, !.b = v]
IntOpt(v) == [Absent EXCEPT !.p = TRUE, !.n = v]
StrOpt(v) == [Absent EXCEPT !.p = TRUE, !.s = v]
\* a name-pair option: one element (a string or not) or a list of elements
NameElt(isStr, cs) == [isStr |-> isStr, s |-> cs]
NameStr(cs) == NameElt(TRUE, cs)
NameOne(e) == [Absent EXCEPT !.p = TRUE, !.forms = <<e>>]
NameList(es) == [Absent EXCEPT !.p = TRUE, !.isList = TRUE, !.forms = es]

\* The recognised options (an xnos- alias counts as its fignos- option) and
\* whether an unrecognised fignos-/xnos- key is present.
MkMeta(wl, cn, cr, cap, pn, sn, ns, unk, hi) ==
    [warning_level |-> wl, caption_name |-> cn, cleveref |-> cr,
     capitalise |-> cap, plus_name |-> pn, star_name |-> sn,
     number_sections |-> ns, unknown |-> unk, header_includes |-> hi]

NoMeta == MkMeta(Absent, Absent, Absent, Absent, Absent, Absent, Absent, FALSE, <<>>)

FIG_DOT == <<"F", "i", "g", ".">>
NAME_X == <<"x">>
NAME_XS == <<"x", "s">>

\* Metadata of the numbering runs: nothing set, or section numbering on.
NumberingMetas == { NoMeta, [NoMeta EXCEPT !.number_sections = BoolOpt(TRUE)] }

\* Metadata of the configuration runs.
ConfigMetas ==
    { NoMeta,
      [NoMeta EXCEPT !.number_sections = BoolOpt(TRUE)],
      [NoMeta EXCEPT !.caption_name = StrOpt(FIG_DOT)],
      [NoMeta EXCEPT !.caption_name = StrOpt(FIGURE)],
      [NoMeta EXCEPT !.cleveref = BoolOpt(TRUE)],
      [NoMeta EXCEPT !.cleveref = BoolOpt(TRUE), !.capitalise = BoolOpt(TRUE)],
      [NoMeta EXCEPT !.plus_name = NameOne(NameStr(NAME_X))],
      [NoMeta EXCEPT !.plus_name = NameList(<<NameStr(NAME_X), NameStr(NAME_XS)>>)],
      [NoMeta EXCEPT !.plus_name = NameList(DEFAULT_PLUSNAME_ELTS)],
      [NoMeta EXCEPT !.plus_name = NameList(<<NameStr(NAME_X)>>)],
      [NoMeta EXCEPT !.plus_name = NameOne(NameElt(FALSE, <<>>))],
      [NoMeta EXCEPT !.star_name = NameOne(NameStr(NAME_X))],
      [NoMeta EXCEPT !.star_name =
          NameList(<<NameStr(NAME_X), NameStr(NAME_XS), NameStr(NAME_X)>>)],
      [NoMeta EXCEPT !.warning_level = IntOpt(2), !.unknown = TRUE],
      [NoMeta EXCEPT !.warning_level = IntOpt(0), !.unknown = TRUE],
      [NoMeta EXCEPT !.header_includes = <<"caption-package">>] }

(* ------------------------------------------------------------------ *)
(* State                                                               *)
(* ------------------------------------------------------------------ *)

VARIABLES
    fmt,                    \* args.fmt
    PANDOCVERSION,          \* pandocxnos.init(...)
    meta,                   \* doc['meta'] as read
    doc,                    \* doc['blocks'] as read
    pc,                     \* where main() is
    i,                      \* the block the current walk visits next
    captionname, cleveref, capitalise, plusname, starname,
    numbersections, warninglevel,
    captionname_changed, plusname_changed, starname_changed,
    has_unnumbered_figures, has_tagged_figures,
    cursec, Nreferences, references,
    nuuid,                  \* number of uuid4() values drawn so far
    figs,                   \* the fig dict _process_figure returned, per block
    altered,                \* the walks' result, per block of the input
    labels,                 \* the labels handed to process_refs_factory
    refnames,               \* the plus names handed to replace_refs_factory
    cleveref_required,      \* pandocxnos.cleveref_required()
    header_includes,        \* meta['header-includes'], by declaration
    add_tex_calls,          \* number of calls of add_tex
    stderr,                 \* diagnostics written to STDERR
    stdout                  \* whether the document was dumped to STDOUT

inputs == <<fmt, PANDOCVERSION, meta, doc>>
config == <<captionname, cleveref, capitalise, plusname, starname,
            numbersections, warninglevel,
            captionname_changed, plusname_changed, starname_changed>>
numbering == <<cursec, Nreferences, references, nuuid>>
flags == <<has_unnumbered_figures, has_tagged_figures>>
vars == <<inputs, pc, i, config, numbering, flags, figs, altered, labels, refnames,
          cleveref_required, header_includes, add_tex_calls, stderr, stdout>>

\* What a block of the input looks like before any walk touched it.
Untouched(node) == << [t |-> "Node", f |-> "", text |-> "", arg |-> <<>>, node |-> node] >>

\* fig dict of a block that is no figure
NoFig == [is_fig |-> FALSE, has_attrs |-> FALSE, is_unnumbered |-> FALSE,
          is_unreferenceable |-> FALSE, is_tagged |-> FALSE, id |-> <<>>]

\* Module level state (lines 81-102) and a document on STDIN.
InitState ==
    /\ pc = "process"
    /\ i = 1
    /\ captionname = FIGURE
    /\ cleveref = FALSE
    /\ capitalise = FALSE
    /\ plusname = DEFAULT_PLUSNAME_ELTS
    /\ starname = DEFAULT_STARNAME_ELTS
    /\ numbersections = FALSE
    /\ warninglevel = 1
    /\ captionname_changed = FALSE
    /\ plusname_changed = FALSE
    /\ starname_changed = FALSE
    /\ has_unnumbered_figures = FALSE
    /\ has_tagged_figures = FALSE
    /\ cursec = None
    /\ Nreferences = 0
    /\ references = << >>
    /\ nuuid = 0
    /\ figs = [k \in 1..Len(doc) |-> NoFig]
    /\ altered = [k \in 1..Len(doc) |-> Untouched(doc[k])]
    /\ labels = {}
    /\ refnames = << >>
    /\ cleveref_required = FALSE
    /\ header_includes = meta.header_includes
    /\ add_tex_calls = 0
    /\ stderr = << >>
    /\ stdout = FALSE

NumberingFormats == {"latex", "html", "docx", "markdown"}
NumberingVersions == { <<"2", ".", "7">> }

\* The numbering runs: documents of up to MaxDoc blocks, a current pandoc.
Init ==
    /\ fmt \in NumberingFormats
    /\ PANDOCVERSION \in NumberingVersions
    /\ meta \in NumberingMetas
    /\ doc \in DocsUpTo(NodesFor(PANDOCVERSION, NumberingFigs), MaxDoc)
    /\ InitState

ConfigFormats == {"latex", "beamer", "html", "epub3", "docx", "markdown"}
ConfigVersions == { <<"1", ".", "1", "5">>, V1_16, <<"2", ".", "7">> }

\* The configuration runs: every metadata shape, target family and pandoc
\* generation, on documents of up to MaxMetaDoc blocks.
InitMeta ==
    /\ fmt \in ConfigFormats
    /\ PANDOCVERSION \in ConfigVersions
    /\ meta \in ConfigMetas
    /\ doc \in DocsUpTo(NodesFor(PANDOCVERSION, ConfigFigs), MaxMetaDoc)
    /\ InitState

TagFormats == {"latex", "html", "docx", "markdown"}

\* Metadata of the tag runs: nothing set, or the caption name Fig.
TagMetas == { NoMeta, [NoMeta EXCEPT !.caption_name = StrOpt(FIG_DOT)] }

\* The tag runs: tagged figures in every quoting, a current pandoc,
\* documents of up to MaxTagDoc blocks.
InitTags ==
    /\ fmt \in TagFormats
    /\ PANDOCVERSION \in NumberingVersions
    /\ meta \in TagMetas
    /\ doc \in DocsUpTo(NodesFor(PANDOCVERSION, TagFigs) \cup {CiteNode(FIG_E)}, MaxTagDoc)
    /\ InitState

(* ------------------------------------------------------------------ *)
(* process(meta)                                                       *)
(* ------------------------------------------------------------------ *)

\* Mutant of NamePairOk: the asserts are not made.
NamePairOk_NoCheck(pair) == TRUE

\* assert len(name) == 2 and every form is a string (lines 431-433, 445-447)
NamePairOk(pair) == Len(pair) = 2 /\ \A k \in 1..Len(pair) : pair[k].isStr

\* lines 426-429 and 440-443: a list replaces the pair, a single value
\* replaces its first form
NameAssign(old, opt) == IF opt.isList THEN opt.forms ELSE [old EXCEPT ![1] = opt.forms[1]]

TitleAll(pair) == [k \in 1..Len(pair) |-> [pair[k] EXCEPT !.s = Title(pair[k].s)]]

\* process(meta): the globals after the call, and whether an assert failed.
ProcessMeta(m) ==
    LET wl == IF m.warning_level.p THEN m.warning_level.n ELSE 1
        diag == IF wl # 0 /\ m.unknown THEN <<"unknown meta variable">> ELSE << >>
        cn == IF m.caption_name.p THEN m.caption_name.s ELSE FIGURE
        cnch == m.caption_name.p /\ cn # FIGURE
        cr == IF m.cleveref.p THEN m.cleveref.b ELSE FALSE
        cap == IF m.capitalise.p THEN m.capitalise.b ELSE FALSE
        pn == IF m.plus_name.p THEN NameAssign(DEFAULT_PLUSNAME_ELTS, m.plus_name)
              ELSE DEFAULT_PLUSNAME_ELTS
        pnch == m.plus_name.p /\ pn # DEFAULT_PLUSNAME_ELTS
        pnok == NamePairOk(pn)
        sn0 == IF pnok /\ pnch THEN TitleAll(pn) ELSE DEFAULT_STARNAME_ELTS
        \* the star name is read only when the plus name passed its asserts
        sn == IF pnok /\ m.star_name.p THEN NameAssign(sn0, m.star_name) ELSE sn0
        snch == pnok /\ m.star_name.p /\ sn # sn0
        snok == NamePairOk(sn)
        ok == pnok /\ snok
    IN  [ok |-> ok, warninglevel |-> wl, diag |-> diag, captionname |-> cn,
         captionname_changed |-> cnch, cleveref |-> cr, capitalise |-> cap,
         plusname |-> pn, plusname_changed |-> pnch, starname |-> sn,
         starname_changed |-> snch,
         numbersections |-> IF ok /\ m.number_sections.p THEN m.number_sections.b
                            ELSE FALSE]

\* main, lines 551-562: process(meta); a failed assert ends the run with a
\* traceback and no output.
Process ==
    /\ pc = "process"
    /\ LET r == ProcessMeta(meta)
       IN  /\ warninglevel' = r.warninglevel
           /\ captionname' = r.captionname
           /\ captionname_changed' = r.captionname_changed
           /\ cleveref' = r.cleveref
           /\ capitalise' = r.capitalise
           /\ plusname' = r.plusname
           /\ plusname_changed' = r.plusname_changed
           /\ starname' = r.starname
           /\ starname_changed' = r.starname_changed
           /\ numbersections' = r.numbersections
           /\ stderr' = stderr \o r.diag
           /\ pc' = IF r.ok THEN "pass1" ELSE "aborted"
    /\ UNCHANGED <<inputs, i, numbering, flags, figs, altered, labels, refnames,
                   cleveref_required, header_includes, add_tex_calls, stdout>>

(* ------------------------------------------------------------------ *)
(* Pass 1: process_figures                                              *)
(* ------------------------------------------------------------------ *)

\* An entry of references: [number or tag, section].  isnum tells the two
\* apart (isinstance(references[id][0], int)).
NumEntry(n, sec) == [isnum |-> TRUE, num |-> n, tag |-> <<>>, sec |-> sec]
TagEntry(tg, sec) == [isnum |-> FALSE, num |-> 0, tag |-> tg, sec |-> sec]

\* references[key] = entry
Store(refs, key, entry) ==
    [k \in DOMAIN refs \cup {key} |-> IF k = key THEN entry ELSE refs[k]]

\* Mutant of Uuid4: every call returns the same suffix.
Uuid4_Fixed(n) == <<"u">>

\* str(uuid.uuid4()): a value no earlier call and no author produced
Uuid4(n) == <<"u">> \o IntToStr(n)

\* line 169: attrs['secno'] != cursec
SectionChanged(secno, cs) == secno # cs

\* Mutant of CounterAfterSectionTest: the counter is reset only on entering
\* a section no recorded figure belongs to.
CounterAfterSectionTest_OnlyNewSection(secno, cs, N) ==
    IF secno # cs /\ ~(\E key \in DOMAIN references : references[key].sec = secno)
    THEN 1 ELSE N

\* Mutant of CounterAfterSectionTest: the counter is reset at every figure,
\* whether or not the section changed.
CounterAfterSectionTest_AlwaysReset(secno, cs, N) == 1

\* Mutant of CounterAfterSectionTest: the reset restarts the counter at 0.
CounterAfterSectionTest_ResetToZero(secno, cs, N) == IF secno # cs THEN 0 ELSE N

\* lines 169-171: the counter after the section test
CounterAfterSectionTest(secno, cs, N) == IF SectionChanged(secno, cs) THEN 1 ELSE N

\* lines 175-180: a tag is hard-coded
SynthesizesTag(fm, ns, hasTag) == ns /\ fm \in SECTAG_FMTS /\ ~hasTag

\* Mutant of SynthTag: the counter is incremented before it is used.
SynthTag_IncrementFirst(cs, N) == cs \o <<".">> \o IntToStr(N + 1)

\* line 181: str(cursec) + '.' + str(Nreferences)
SynthTag(cs, N) == cs \o <<".">> \o IntToStr(N)

\* lines 188-191: remove surrounding quotes (the tag is not empty)
StripQuotes(tg) ==
    IF tg[1] = DQ /\ tg[Len(tg)] = DQ THEN Strip(tg, DQ)
    ELSE IF tg[1] = SQ /\ tg[Len(tg)] = SQ THEN Strip(tg, SQ)
    ELSE tg

\* lines 194-195: the counter is incremented, then stored
NumberStored(N) == N + 1

\* _process_figure(value, fmt) on the state (cs, N, refs, nu, hun): the
\* state after it, the fig dict it returns, and whether it raised
\* (attrs['tag'][0] of an empty tag is an IndexError).
ProcessFigure(node, fm, ns, cs, N, refs, nu, hun) ==
    IF ~node.hasAttrs
    THEN \* lines 148-151
         [raised |-> FALSE, cursec |-> cs, Nreferences |-> N, references |-> refs,
          nuuid |-> nu, has_unnumbered_figures |-> TRUE,
          fig |-> [is_fig |-> TRUE, has_attrs |-> FALSE, is_unnumbered |-> TRUE,
                   is_unreferenceable |-> TRUE, is_tagged |-> FALSE, id |-> <<>>]]
    ELSE IF ~LABEL_PATTERN_match(node.id)
    THEN \* lines 158-161
         [raised |-> FALSE, cursec |-> cs, Nreferences |-> N, references |-> refs,
          nuuid |-> nu, has_unnumbered_figures |-> TRUE,
          fig |-> [is_fig |-> TRUE, has_attrs |-> TRUE, is_unnumbered |-> TRUE,
                   is_unreferenceable |-> TRUE, is_tagged |-> FALSE, id |-> node.id]]
    ELSE
    LET anon == node.id = FIG_PREFIX                           \* line 164
        id == IF anon THEN node.id \o Uuid4(nu + 1) ELSE node.id
        nu1 == IF anon THEN nu + 1 ELSE nu
        cs1 == IF SectionChanged(node.secno, cs) THEN node.secno ELSE cs
        N1 == CounterAfterSectionTest(node.secno, cs, N)
        synth == SynthesizesTag(fm, ns, node.hasTag)
        tag1 == IF synth THEN SynthTag(cs1, N1) ELSE node.tag
        N2 == IF synth THEN N1 + 1 ELSE N1
        tagged == node.hasTag \/ synth                         \* line 185
        fig == [is_fig |-> TRUE, has_attrs |-> TRUE, is_unnumbered |-> FALSE,
                is_unreferenceable |-> anon, is_tagged |-> tagged, id |-> id]
    IN  IF tagged /\ tag1 = <<>>
        THEN [raised |-> TRUE, cursec |-> cs1, Nreferences |-> N2,
              references |-> refs, nuuid |-> nu1,
              has_unnumbered_figures |-> hun, fig |-> fig]
        ELSE IF tagged
        THEN [raised |-> FALSE, cursec |-> cs1, Nreferences |-> N2,
              references |-> Store(refs, id, TagEntry(StripQuotes(tag1), cs1)),
              nuuid |-> nu1, has_unnumbered_figures |-> hun, fig |-> fig]
        ELSE [raised |-> FALSE, cursec |-> cs1, Nreferences |-> NumberStored(N2),
              references |-> Store(refs, id, NumEntry(NumberStored(N2), cs1)),
              nuuid |-> nu1, has_unnumbered_figures |-> hun, fig |-> fig]

\* text.replace(' ', r'\ ')
RECURSIVE EscapeSpaces(_)
EscapeSpaces(cs) ==
    IF cs = <<>> THEN <<>>
    ELSE (IF Head(cs) = " " THEN <<"\\", " ">> ELSE <<Head(cs)>>) \o EscapeSpaces(Tail(cs))

\* lines 225-229: the elements that show a tag
TagEls(text) ==
    IF StartsWith(text, <<"$">>) /\ EndsWith(text, <<"$">>)
    THEN LET esc == EscapeSpaces(text)
         IN  << Math(SubSeq(esc, 2, Len(esc) - 1)), Str(<<":">>) >>
    ELSE << Str(text \o <<":">>) >>

\* Mutant of AdjustCaption: the prefix is written with the default caption
\* name instead of the configured one.
AdjustCaption_DefaultName(fm, ver, cn, fig, refs, caption) ==
    IF fm \in TEX_FMTS
    THEN IF StrLT(ver, V1_17) /\ ~fig.is_unreferenceable
         THEN caption \o << RawInline("tex", <<"\\protect\\label{">> \o fig.id \o <<"}">>) >>
         ELSE caption
    ELSE IF fig.is_unnumbered THEN caption
    ELSE LET e == refs[fig.id]
             els == IF e.isnum THEN << Str(IntToStr(e.num) \o <<":">>) >>
                    ELSE TagEls(e.tag)
             prefix == IF fm \in HTML_FMTS
                       THEN << RawInline("html", <<"<span>">>), Str(FIGURE), Space >>
                            \o els \o << RawInline("html", <<"</span>">>) >>
                       ELSE << Str(FIGURE), Space >> \o els
         IN  prefix \o << Space >> \o caption

\* _adjust_caption(fmt, fig, value): the caption of the image afterwards.
AdjustCaption(fm, ver, cn, fig, refs, caption) ==
    IF fm \in TEX_FMTS
    THEN IF StrLT(ver, V1_17) /\ ~fig.is_unreferenceable
         THEN caption \o << RawInline("tex", <<"\\protect\\label{">> \o fig.id \o <<"}">>) >>
         ELSE caption
    ELSE IF fig.is_unnumbered THEN caption
    ELSE LET e == refs[fig.id]
             els == IF e.isnum THEN << Str(IntToStr(e.num) \o <<":">>) >>
                    ELSE TagEls(e.tag)
             prefix == IF fm \in HTML_FMTS
                       THEN << RawInline("html", <<"<span>">>), Str(cn), Space >>
                            \o els \o << RawInline("html", <<"</span>">>) >>
                       ELSE << Str(cn), Space >> \o els
         IN  prefix \o << Space >> \o caption

Para(node, caption) ==
    [t |-> "Node", f |-> "", text |-> "", arg |-> <<>>,
     node |-> [node EXCEPT !.caption = caption]]
RawBlock(fm, text, arg) ==
    [t |-> "RawBlock", f |-> fm, text |-> text, arg |-> arg, node |-> OtherNode]

\* _add_markup(fmt, fig, value): the blocks that replace the paragraph; a
\* return value of None leaves the paragraph where it is.
AddMarkup(fm, ver, fig, refs, para) ==
    IF fig.is_unnumbered
    THEN IF fm \in TEX_FMTS
         THEN << RawBlock("tex", "begin{fignos:no-prefix-figure-caption}", <<>>),
                 para,
                 RawBlock("tex", "end{fignos:no-prefix-figure-caption}", <<>>) >>
         ELSE << para >>
    ELSE IF fm \in TEX_FMTS
    THEN IF fig.is_tagged
         THEN << RawBlock("tex", "begin{fignos:tagged-figure}", refs[fig.id].tag),
                 para,
                 RawBlock("tex", "end{fignos:tagged-figure}", <<>>) >>
         ELSE << para >>
    ELSE IF fm \in HTML_FMTS
    THEN IF StrLT(ver, V1_16) /\ LABEL_PATTERN_match(fig.id)
         THEN << RawBlock("html", "a name", fig.id), para >>
         ELSE << para >>
    ELSE IF fm = "docx"
    THEN << RawBlock("openxml", "w:bookmarkStart", fig.id),
            para,
            RawBlock("openxml", "w:bookmarkEnd", <<>>) >>
    ELSE << para >>

\* Mutant of MarkupRaisesTagged: the flag is never raised.
MarkupRaisesTagged_Never(fm, fig) == FALSE

\* line 260: _add_markup raises has_tagged_figures
MarkupRaisesTagged(fm, fig) == ~fig.is_unnumbered /\ fm \in TEX_FMTS /\ fig.is_tagged

\* lines 287-288: the block is a figure-shaped paragraph
IsFigurePara(node) == node.t = "Fig"

\* process_figures on a figure-shaped paragraph: _process_figure, then
\* _adjust_caption when the figure has attributes, then _add_markup.  An
\* exception in _process_figure ends the run.
VisitFigure ==
    /\ pc = "pass1"
    /\ i <= Len(doc)
    /\ IsFigurePara(doc[i])
    /\ LET r == ProcessFigure(doc[i], fmt, numbersections, cursec, Nreferences,
                              references, nuuid, has_unnumbered_figures)
           cap == IF r.fig.has_attrs
                  THEN AdjustCaption(fmt, PANDOCVERSION, captionname, r.fig,
                                     r.references, doc[i].caption)
                  ELSE doc[i].caption
       IN  /\ cursec' = r.cursec
           /\ Nreferences' = r.Nreferences
           /\ references' = r.references
           /\ nuuid' = r.nuuid
           /\ has_unnumbered_figures' = r.has_unnumbered_figures
           /\ IF r.raised
              THEN /\ pc' = "aborted"
                   /\ UNCHANGED <<i, figs, altered, has_tagged_figures>>
              ELSE /\ pc' = "pass1"
                   /\ i' = i + 1
                   /\ figs' = [figs EXCEPT ![i] = r.fig]
                   /\ has_tagged_figures' =
                        (has_tagged_figures \/ MarkupRaisesTagged(fmt, r.fig))
                   /\ altered' = [altered EXCEPT ![i] =
                        AddMarkup(fmt, PANDOCVERSION, r.fig, r.references,
                                  Para(doc[i], cap))]
    /\ UNCHANGED <<inputs, config, labels, refnames, cleveref_required,
                   header_includes, add_tex_calls, stderr, stdout>>

\* process_figures on any other block: returns None, nothing changes.
VisitOther ==
    /\ pc = "pass1"
    /\ i <= Len(doc)
    /\ ~IsFigurePara(doc[i])
    /\ i' = i + 1
    /\ UNCHANGED <<inputs, pc, config, numbering, flags, figs, altered, labels, refnames,
                   cleveref_required, header_includes, add_tex_calls, stderr, stdout>>

(* ------------------------------------------------------------------ *)
(* Pass 2: process_refs / replace_refs                                  *)
(* ------------------------------------------------------------------ *)

\* Mutant of LabelsForRefs: the labels are read before the first walk ran.
LabelsForRefs_BeforeFirstPass(refs) == {}

\* line 569: references.keys()
LabelsForRefs(refs) == DOMAIN refs

\* lines 573-575: the plus names handed to replace_refs_factory
PlusNamesForRefs(pn, cap, pnch) == IF ~cap \/ pnch THEN pn ELSE TitleAll(pn)

\* main, lines 568-578: the first walk is over; the factories of the second
\* pass are built from references as it now stands.
SecondPassSetup ==
    /\ pc = "pass1"
    /\ i > Len(doc)
    /\ labels' = LabelsForRefs(references)
    /\ refnames' = PlusNamesForRefs(plusname, capitalise, plusname_changed)
    /\ pc' = "pass2"
    /\ i' = 1
    /\ UNCHANGED <<inputs, config, numbering, flags, figs, altered,
                   cleveref_required, header_includes, add_tex_calls, stderr, stdout>>

Resolved(kind, arg, node) ==
    << [t |-> "Ref", f |-> "", text |-> kind, arg |-> arg, node |-> node] >>

\* What a reference placeholder becomes, given the labels and the table
\* handed to the factories: an unknown label stays a broken citation; a TeX
\* target gets a \ref (or \cref) of the label; any other target gets the
\* name and the stored number or tag.
ResolveRef(node, fm, known, refs, names, cr) ==
    IF node.id \notin known THEN Resolved("unresolved", node.id, node)
    ELSE IF fm \in TEX_FMTS
    THEN Resolved(IF cr THEN "cref" ELSE "ref", node.id, node)
    ELSE LET e == refs[node.id]
         IN  Resolved(IF e.isnum THEN "number" ELSE "tag",
                      names[1].s \o <<" ">> \o
                        (IF e.isnum THEN IntToStr(e.num) ELSE e.tag),
                      node)

\* The second walk on a reference placeholder.
VisitCite ==
    /\ pc = "pass2"
    /\ i <= Len(doc)
    /\ doc[i].t = "Cite"
    /\ altered' = [altered EXCEPT ![i] =
                      ResolveRef(doc[i], fmt, labels, references, refnames, cleveref)]
    /\ stderr' = IF doc[i].id \notin labels /\ warninglevel # 0
                 THEN Append(stderr, "bad reference") ELSE stderr
    /\ cleveref_required' =
          (cleveref_required \/
             (doc[i].id \in labels /\ cleveref /\ fmt \in TEX_FMTS))
    /\ i' = i + 1
    /\ UNCHANGED <<inputs, pc, config, numbering, flags, figs, labels, refnames,
                   header_includes, add_tex_calls, stdout>>

\* The second walk on any other block.
VisitNonCite ==
    /\ pc = "pass2"
    /\ i <= Len(doc)
    /\ doc[i].t # "Cite"
    /\ i' = i + 1
    /\ UNCHANGED <<inputs, pc, config, numbering, flags, figs, altered, labels, refnames,
                   cleveref_required, header_includes, add_tex_calls, stderr, stdout>>

(* ------------------------------------------------------------------ *)
(* add_tex and the end of main                                          *)
(* ------------------------------------------------------------------ *)

Decl(name, match) == [name |-> name, match |-> match]

InSeq(x, sq) == \E k \in 1..Len(sq) : sq[k] = x

\* pandocxnos.add_tex_to_header_includes(meta, tex, warninglevel, regex):
\* appends the block unless a regex is given and header-includes matches it.
AddTexToHeaderIncludes(hi, present, decl) ==
    IF present /\ InSeq(decl.match, hi) THEN hi ELSE Append(hi, decl.name)

\* Mutant of RequestedDecls: the caption package is requested whether or
\* not an unnumbered figure was found.
RequestedDecls_AlwaysCaption(cr, hun, pnch, snch, htf, cn, ns) ==
    (IF cr THEN << Decl("cleveref-package", "cleveref-package") >> ELSE << >>)
    \o << Decl("caption-package", "caption-package") >>
    \o (IF pnch THEN << Decl("crefname", "") >> ELSE << >>)
    \o (IF snch THEN << Decl("Crefname", "") >> ELSE << >>)
    \o (IF hun THEN << Decl("no-prefix-figure-caption-env", "") >> ELSE << >>)
    \o (IF htf THEN << Decl("tagged-figure-env", "") >> ELSE << >>)
    \o (IF cn # FIGURE THEN << Decl("figurename", "") >> ELSE << >>)
    \o (IF ns THEN << Decl("numberwithin", "") >> ELSE << >>)

\* add_tex, lines 479-523: the declarations requested, in order.  match is
\* what the regex of the call finds in header-includes ("" for no regex).
RequestedDecls(cr, hun, pnch, snch, htf, cn, ns) ==
    (IF cr THEN << Decl("cleveref-package", "cleveref-package") >> ELSE << >>)
    \o (IF hun THEN << Decl("caption-package", "caption-package") >> ELSE << >>)
    \o (IF pnch THEN << Decl("crefname", "") >> ELSE << >>)
    \o (IF snch THEN << Decl("Crefname", "") >> ELSE << >>)
    \o (IF hun THEN << Decl("no-prefix-figure-caption-env", "") >> ELSE << >>)
    \o (IF htf THEN << Decl("tagged-figure-env", "") >> ELSE << >>)
    \o (IF cn # FIGURE THEN << Decl("figurename", "") >> ELSE << >>)
    \o (IF ns THEN << Decl("numberwithin", "") >> ELSE << >>)

RECURSIVE AddAll(_, _)
AddAll(hi, decls) ==
    IF decls = << >> THEN hi
    ELSE AddAll(AddTexToHeaderIncludes(hi, Head(decls).match # "", Head(decls)),
                Tail(decls))

\* lines 459-462
AddTexWarns(wl, decls) == wl = 2 /\ decls # << >>

\* Mutant of TexTarget: add_tex is called whatever the target format is.
TexTarget_Any(fm) == TRUE

\* line 584: fmt in ['latex', 'beamer']
TexTarget(fm) == fm \in TEX_FMTS

\* main, lines 584-585: add_tex(meta) for the TeX targets.
AddTex ==
    /\ pc = "pass2"
    /\ i > Len(doc)
    /\ TexTarget(fmt)
    /\ LET decls == RequestedDecls(cleveref_required, has_unnumbered_figures,
                                   plusname_changed, starname_changed,
                                   has_tagged_figures, captionname, numbersections)
       IN  /\ header_includes' = AddAll(header_includes, decls)
           /\ stderr' = IF AddTexWarns(warninglevel, decls)
                        THEN Append(stderr, "wrote header-includes") ELSE stderr
    /\ add_tex_calls' = add_tex_calls + 1
    /\ pc' = "dump"
    /\ UNCHANGED <<inputs, i, config, numbering, flags, figs, altered, labels, refnames,
                   cleveref_required, stdout>>

\* main, lines 587-597: the document is written to STDOUT.
Dump ==
    /\ \/ pc = "dump"
       \/ pc = "pass2" /\ i > Len(doc) /\ ~TexTarget(fmt)
    /\ stdout' = TRUE
    /\ pc' = "done"
    /\ UNCHANGED <<inputs, i, config, numbering, flags, figs, altered, labels, refnames,
                   cleveref_required, header_includes, add_tex_calls, stderr>>

Next ==
    \/ Process
    \/ VisitFigure
    \/ VisitOther
    \/ SecondPassSetup
    \/ VisitCite
    \/ VisitNonCite
    \/ AddTex
    \/ Dump

Spec == Init /\ [][Next]_vars

SpecMeta == InitMeta /\ [][Next]_vars

SpecTags == InitTags /\ [][Next]_vars

(* ------------------------------------------------------------------ *)
(* Vocabulary of the properties                                         *)
(* ------------------------------------------------------------------ *)

\* The block is a figure that _process_figure numbers or tags: it has
\* attributes and its identifier starts with fig:
Labelled(node) ==
    node.t = "Fig" /\ node.hasAttrs /\ StartsWith(node.id, <<"f", "i", "g", ":">>)

\* The block is a figure that _process_figure leaves unnumbered.
UnnumberedShape(node) == node.t = "Fig" /\ ~Labelled(node)

\* The figure carries a tag attribute of its own.
ExplicitlyTagged(node) == Labelled(node) /\ node.hasTag

\* Tags are hard-coded in this run for the figures that have none.
SynthesisOn == numbersections /\ fmt \in {"html", "html5", "epub", "epub2", "epub3", "docx"}

\* The first walk is about to visit block k.
AtFigure(k) == pc = "pass1" /\ i = k /\ k <= Len(doc)

\* Block k was visited by the first walk and _process_figure returned.
Processed(k) == k \in 1..Len(doc) /\ figs[k].is_fig

\* The key under which block k was recorded.
KeyOf(k) == figs[k].id

\* Every block is an untagged labelled figure of one section and no two
\* figures share an identifier.
PlainOneSectionDoc ==
    /\ Len(doc) > 0
    /\ \A k \in 1..Len(doc) :
          Labelled(doc[k]) /\ ~doc[k].hasTag /\ doc[k].secno = doc[1].secno
    /\ \A j, k \in 1..Len(doc) :
          (j # k /\ doc[j].id = doc[k].id) => doc[k].id = <<"f", "i", "g", ":">>

(* ------------------------------------------------------------------ *)
(* C1                                                                   *)
(* ------------------------------------------------------------------ *)

\* C1: from the initial numbering state, figures that all carry the same
\* section id and no tag (no tag synthesis) are recorded with the numbers
\* 1, 2, ..., N in document order: the k-th figure processed holds k.
C1_NumbersFromOne ==
    (PlainOneSectionDoc /\ ~SynthesisOn) =>
        \A k \in 1..Len(doc) :
            Processed(k) =>
                /\ KeyOf(k) \in DOMAIN references
                /\ references[KeyOf(k)].isnum
                /\ references[KeyOf(k)].num = k

(* ------------------------------------------------------------------ *)
(* C2                                                                   *)
(* ------------------------------------------------------------------ *)

\* C2: a numbered figure whose section id differs from the current section
\* id is recorded with number 1, whatever was numbered before.
C2_NewSectionGetsOne ==
    [][ \A k \in 1..Len(doc) :
          ( /\ AtFigure(k)
            /\ Labelled(doc[k]) /\ ~doc[k].hasTag /\ ~SynthesisOn
            /\ doc[k].secno # cursec )
          => /\ KeyOf(k)' \in DOMAIN references'
             /\ references'[KeyOf(k)'].isnum
             /\ references'[KeyOf(k)'].num = 1 ]_vars

(* ------------------------------------------------------------------ *)
(* C3                                                                   *)
(* ------------------------------------------------------------------ *)

\* C3 as stated: processing a figure that carries a tag attribute leaves
\* Nreferences as it was.
C3_TaggedKeepsCounter ==
    [][ \A k \in 1..Len(doc) :
          (AtFigure(k) /\ ExplicitlyTagged(doc[k])) => Nreferences' = Nreferences ]_vars

\* C3 as amended: processing a figure that carries a tag attribute never
\* advances Nreferences: the counter keeps its value when the figure's
\* section id is the current one and is reset to 1 when it is not.
C3_TaggedNeverAdvances ==
    [][ \A k \in 1..Len(doc) :
          (AtFigure(k) /\ ExplicitlyTagged(doc[k])) =>
              Nreferences' = IF doc[k].secno # cursec THEN 1 ELSE Nreferences ]_vars

\* A tagged figure was processed right after a numbered figure of its own
\* section and the counter still holds that figure's number.
C3_Witness ==
    /\ pc = "pass1" /\ i = 3
    /\ Processed(1) /\ Processed(2)
    /\ Labelled(doc[1]) /\ ~figs[1].is_tagged
    /\ ExplicitlyTagged(doc[2]) /\ figs[2].is_tagged
    /\ doc[1].secno = doc[2].secno
    /\ doc[1].id # doc[2].id
    /\ Nreferences = references[KeyOf(1)].num
    /\ ~references[KeyOf(2)].isnum

(* ------------------------------------------------------------------ *)
(* C4                                                                   *)
(* ------------------------------------------------------------------ *)

SecondWalkOrLater == pc \in {"pass2", "dump", "done"}

\* Block k is a reference placeholder the second walk has visited.
CiteVisited(k) ==
    /\ k \in 1..Len(doc) /\ doc[k].t = "Cite"
    /\ (pc = "pass2" /\ k < i) \/ pc \in {"dump", "done"}

\* Some figure of the document, before or after any placeholder, defines
\* the label.
DefinedInDoc(label) == \E j \in 1..Len(doc) : Labelled(doc[j]) /\ doc[j].id = label

\* C4: no placeholder is resolved before every figure of the document was
\* classified and recorded, and a placeholder naming a figure of the
\* document resolves whether the figure precedes or follows it.
C4_PassOneBeforePassTwo ==
    /\ \A k \in 1..Len(doc) :
          altered[k][1].t = "Ref" =>
              /\ SecondWalkOrLater
              /\ \A j \in 1..Len(doc) : doc[j].t = "Fig" => Processed(j)
    /\ SecondWalkOrLater =>
          \A j \in 1..Len(doc) :
              Labelled(doc[j]) => KeyOf(j) \in DOMAIN references /\ KeyOf(j) \in labels
    /\ \A k \in 1..Len(doc) :
          (CiteVisited(k) /\ DefinedInDoc(doc[k].id)) =>
              /\ altered[k][1].t = "Ref"
              /\ altered[k][1].text # "unresolved"

\* A placeholder ahead of its figure and one after it were both resolved.
C4_Witness ==
    /\ pc = "done" /\ Len(doc) = 3
    /\ doc[1].t = "Cite" /\ doc[3].t = "Cite"
    /\ Labelled(doc[2]) /\ doc[2].id = doc[1].id /\ doc[2].id = doc[3].id
    /\ altered[1][1].text # "unresolved"
    /\ altered[3][1] = altered[1][1]

(* ------------------------------------------------------------------ *)
(* C5                                                                   *)
(* ------------------------------------------------------------------ *)

\* C5: an entry of the reference table is written once (no later figure
\* visit changes it), entries appear only during the first walk and the
\* table does not change afterwards.
C5_WriteOnce ==
    [][ /\ \A key \in DOMAIN references :
              key \in DOMAIN references' /\ references'[key] = references[key]
        /\ pc # "pass1" => references' = references ]_vars

(* ------------------------------------------------------------------ *)
(* C6                                                                   *)
(* ------------------------------------------------------------------ *)

\* The document holds no figure and no reference placeholder.
NoFigsNoRefs == \A k \in 1..Len(doc) : doc[k].t = "Other"

BlocksAsRead == altered = [k \in 1..Len(doc) |-> Untouched(doc[k])]

\* C6 as stated: a document without figures and references is returned
\* unchanged, blocks and metadata, for every format and configuration.
C6_ReturnedUnchanged ==
    (pc = "done" /\ NoFigsNoRefs) =>
        BlocksAsRead /\ header_includes = meta.header_includes

\* The declarations the configuration alone asks for.
ConfigDeclNames ==
    (IF plusname_changed THEN <<"crefname">> ELSE << >>)
    \o (IF starname_changed THEN <<"Crefname">> ELSE << >>)
    \o (IF captionname # <<"F", "i", "g", "u", "r", "e">> THEN <<"figurename">> ELSE << >>)
    \o (IF numbersections THEN <<"numberwithin">> ELSE << >>)

\* C6 as amended: a document without figures and references has its blocks
\* returned unchanged for every format and configuration; its metadata is
\* returned unchanged too, except that for a TeX target header-includes
\* gains the declarations the configuration itself requires (changed
\* plus/star names, a caption name other than Figure, section numbering).
C6_BlocksUnchanged ==
    (pc = "done" /\ NoFigsNoRefs) =>
        /\ BlocksAsRead
        /\ header_includes =
              meta.header_includes
                \o (IF fmt \in {"latex", "beamer"} THEN ConfigDeclNames ELSE << >>)

\* A TeX run over a document of plain blocks that left the blocks alone
\* and added the section numbering directive to header-includes.
C6_Witness ==
    /\ pc = "done" /\ Len(doc) > 0 /\ NoFigsNoRefs
    /\ fmt = "latex" /\ numbersections
    /\ BlocksAsRead
    /\ header_includes = <<"numberwithin">>

(* ------------------------------------------------------------------ *)
(* C7                                                                   *)
(* ------------------------------------------------------------------ *)

LabelledUpTo(k) == { j \in 1..k : Labelled(doc[j]) }
MaxOf(S) == CHOOSE m \in S : \A n \in S : n <= m

\* Figure m opens a stay in a section: it is the first labelled figure or
\* its section id differs from the one of the labelled figure before it.
OpensStay(m) ==
    /\ Labelled(doc[m])
    /\ LabelledUpTo(m - 1) = {} \/ doc[MaxOf(LabelledUpTo(m - 1))].secno # doc[m].secno

\* The untagged labelled figures from the start of figure k's stay to k.
CountInStay(k) ==
    LET start == MaxOf({ m \in 1..k : OpensStay(m) })
    IN  Cardinality({ j \in start..k : Labelled(doc[j]) /\ ~doc[j].hasTag })

\* C7: with section numbering on and a target without native section
\* numbering, the k-th untagged figure of a stay in section s is recorded
\* with the tag "s.k" and the counter advances by exactly one.
C7_SectionTags ==
    [][ \A k \in 1..Len(doc) :
          (AtFigure(k) /\ Labelled(doc[k]) /\ ~doc[k].hasTag /\ SynthesisOn) =>
              /\ figs'[k].is_tagged
              /\ KeyOf(k)' \in DOMAIN references'
              /\ references'[KeyOf(k)'] =
                    [isnum |-> FALSE, num |-> 0, sec |-> doc[k].secno,
                     tag |-> doc[k].secno \o <<".">> \o IntToStr(CountInStay(k))]
              /\ Nreferences' = (IF doc[k].secno # cursec THEN 1 ELSE Nreferences) + 1 ]_vars

\* The second untagged figure of section 1 was recorded with the tag 1.2.
C7_Witness ==
    /\ pc = "pass1" /\ i = 3 /\ SynthesisOn
    /\ Labelled(doc[1]) /\ Labelled(doc[2])
    /\ ~doc[1].hasTag /\ ~doc[2].hasTag
    /\ doc[1].id # doc[2].id
    /\ references[KeyOf(1)].tag = <<"1", ".", "1">>
    /\ references[KeyOf(2)].tag = <<"1", ".", "2">>
    /\ Nreferences = 3

(* ------------------------------------------------------------------ *)
(* C8                                                                   *)
(* ------------------------------------------------------------------ *)

\* C8: visiting an unnumbered figure (no attributes, or an identifier that
\* is no figure label) leaves the counter, the current section, the
\* reference table and every other global alone and raises
\* has_unnumbered_figures; and the counter moves other than by staying or
\* advancing by one only when a labelled figure of another section id is
\* visited.
C8_UnnumberedLeavesNumbering ==
    [][ /\ \A k \in 1..Len(doc) :
              (AtFigure(k) /\ UnnumberedShape(doc[k])) =>
                  /\ UNCHANGED <<cursec, Nreferences, references, nuuid>>
                  /\ UNCHANGED <<config, has_tagged_figures, labels, refnames,
                                 cleveref_required, header_includes>>
                  /\ has_unnumbered_figures'
                  /\ figs'[k].is_unnumbered /\ figs'[k].is_unreferenceable
        /\ Nreferences' \notin {Nreferences, Nreferences + 1} =>
              \E k \in 1..Len(doc) :
                  AtFigure(k) /\ Labelled(doc[k]) /\ doc[k].secno # cursec ]_vars

\* A figure without attributes was visited after a numbered one: the
\* counter still holds that figure's number and the flag is raised.
C8_Witness ==
    /\ pc = "pass1" /\ i = 3
    /\ Labelled(doc[1]) /\ ~doc[1].hasTag /\ references[KeyOf(1)].isnum
    /\ doc[2].t = "Fig" /\ ~doc[2].hasAttrs
    /\ Processed(2) /\ figs[2].is_unnumbered
    /\ has_unnumbered_figures
    /\ Nreferences = references[KeyOf(1)].num
    /\ cursec = doc[1].secno
    /\ DOMAIN references = {KeyOf(1)}

(* ------------------------------------------------------------------ *)
(* C9                                                                   *)
(* ------------------------------------------------------------------ *)

\* The figure's identifier is the bare prefix.
Anonymous(node) == Labelled(node) /\ node.id = <<"f", "i", "g", ":">>

\* C9: a figure whose identifier is the bare prefix fig: is marked
\* unreferenceable and still numbered: with no tag it is stored with the
\* counter's next value and the counter advances by one; its entry is keyed
\* under a fresh identifier that extends fig:, so the table never holds the
\* key fig: and two anonymous figures never share a key.
C9_AnonymousNumbered ==
    [][ /\ <<"f", "i", "g", ":">> \notin DOMAIN references'
        /\ \A j, k \in 1..Len(doc) :
              (j # k /\ Processed(j)' /\ Processed(k)'
                 /\ Anonymous(doc[j]) /\ Anonymous(doc[k])) => KeyOf(j)' # KeyOf(k)'
        /\ \A k \in 1..Len(doc) :
              (AtFigure(k) /\ Anonymous(doc[k])) =>
                  /\ figs'[k].is_unreferenceable /\ ~figs'[k].is_unnumbered
                  /\ KeyOf(k)' \notin DOMAIN references
                  /\ KeyOf(k)' \in DOMAIN references'
                  /\ StartsWith(KeyOf(k)', <<"f", "i", "g", ":">>)
                  /\ Len(KeyOf(k)') > 4
                  /\ (~doc[k].hasTag /\ ~SynthesisOn) =>
                        /\ references'[KeyOf(k)'].isnum
                        /\ references'[KeyOf(k)'].num = Nreferences'
                        /\ Nreferences' =
                              (IF doc[k].secno # cursec THEN 1 ELSE Nreferences) + 1 ]_vars

\* Two anonymous figures of one section were numbered, one after the other,
\* under two different keys.
C9_Witness ==
    /\ pc = "pass1" /\ i = 3 /\ ~SynthesisOn
    /\ Anonymous(doc[1]) /\ Anonymous(doc[2])
    /\ doc[1].secno = doc[2].secno
    /\ KeyOf(1) # KeyOf(2)
    /\ DOMAIN references = {KeyOf(1), KeyOf(2)}
    /\ references[KeyOf(2)].num = references[KeyOf(1)].num + 1
    /\ figs[1].is_unreferenceable /\ figs[2].is_unreferenceable

(* ------------------------------------------------------------------ *)
(* C10                                                                  *)
(* ------------------------------------------------------------------ *)

\* C10: the labels and the table handed to the second walk hold an
\* identifier only if the first walk numbered or tagged a figure with it;
\* a placeholder naming an identifier no figure defines becomes the marked
\* unresolved output (never a number or a tag) with a diagnostic when
\* warnings are on, and the run goes on to dump the document.
C10_UnknownStaysUnresolved ==
    /\ \A key \in DOMAIN references :
          /\ StartsWith(key, <<"f", "i", "g", ":">>)
          /\ \E k \in 1..Len(doc) :
                /\ Processed(k) /\ Labelled(doc[k])
                /\ ~figs[k].is_unnumbered
                /\ KeyOf(k) = key
    /\ labels \subseteq DOMAIN references
    /\ \A k \in 1..Len(doc) :
          (CiteVisited(k) /\ ~DefinedInDoc(doc[k].id)) =>
              /\ altered[k] =
                    << [t |-> "Ref", f |-> "", text |-> "unresolved",
                        arg |-> doc[k].id, node |-> doc[k]] >>
              /\ warninglevel # 0 =>
                    \E n \in 1..Len(stderr) : stderr[n] = "bad reference"
    /\ pc = "aborted" => \A k \in 1..Len(doc) : altered[k][1].t # "Ref"
    /\ pc = "done" => stdout

\* A run with a reference to an undefined figure and a numbered figure
\* finished: the reference is marked unresolved and the document was dumped.
C10_Witness ==
    /\ pc = "done" /\ stdout /\ Len(doc) = 2
    /\ doc[1].t = "Cite" /\ ~DefinedInDoc(doc[1].id)
    /\ altered[1][1].text = "unresolved"
    /\ Labelled(doc[2]) /\ KeyOf(2) \in labels
    /\ warninglevel # 0 /\ stderr = <<"bad reference">>

(* ------------------------------------------------------------------ *)
(* C11                                                                  *)
(* ------------------------------------------------------------------ *)

\* The figure carries a tag attribute whose value is the empty string.
EmptyTagged(node) == Labelled(node) /\ node.hasTag /\ node.tag = << >>

\* C11: an error raised while one figure is processed stays with that
\* figure: the visit of any figure returns a record and the walk moves on
\* to the next block (the run does not abort), and a figure with an empty
\* tag is recorded as unnumbered and unreferenceable.
C11_ErrorsContained ==
    [][ \A k \in 1..Len(doc) :
          (AtFigure(k) /\ doc[k].t = "Fig") =>
              /\ pc' = "pass1" /\ i' = k + 1
              /\ Processed(k)'
              /\ EmptyTagged(doc[k]) =>
                    figs'[k].is_unnumbered /\ figs'[k].is_unreferenceable ]_vars

(* ------------------------------------------------------------------ *)
(* C12                                                                  *)
(* ------------------------------------------------------------------ *)

\* What the run appended to header-includes.
AddedDecls ==
    SubSeq(header_includes, Len(meta.header_includes) + 1, Len(header_includes))

CountOf(d, sq) == Cardinality({ n \in 1..Len(sq) : sq[n] = d })

\* The gating conditions of the header-include builder that hold.
GatesRaised ==
    { g \in {"cleveref required", "unnumbered figures", "tagged figures",
             "caption name", "section numbering", "plus name", "star name"} :
        CASE g = "cleveref required" -> cleveref_required
          [] g = "unnumbered figures" -> has_unnumbered_figures
          [] g = "tagged figures" -> has_tagged_figures
          [] g = "caption name" -> captionname # <<"F", "i", "g", "u", "r", "e">>
          [] g = "section numbering" -> numbersections
          [] g = "plus name" -> plusname_changed
          [] g = "star name" -> starname_changed }

\* C12 as stated: every gating condition that holds adds exactly one
\* declaration, so a TeX run that started with empty header-includes ends
\* with as many declarations as conditions hold, none of them twice.
C12_OneDeclarationPerGate ==
    (pc = "done" /\ fmt \in {"latex", "beamer"} /\ meta.header_includes = << >>) =>
        /\ Len(header_includes) = Cardinality(GatesRaised)
        /\ \A n \in 1..Len(header_includes) :
              CountOf(header_includes[n], header_includes) = 1

\* The condition that gates a declaration.
GateOf(d) ==
    CASE d = "cleveref-package" -> "cleveref required"
      [] d = "caption-package" -> "unnumbered figures"
      [] d = "no-prefix-figure-caption-env" -> "unnumbered figures"
      [] d = "tagged-figure-env" -> "tagged figures"
      [] d = "figurename" -> "caption name"
      [] d = "numberwithin" -> "section numbering"
      [] d = "crefname" -> "plus name"
      [] d = "Crefname" -> "star name"

AllDeclNames ==
    {"cleveref-package", "caption-package", "no-prefix-figure-caption-env",
     "tagged-figure-env", "figurename", "numberwithin", "crefname", "Crefname"}

\* The package declarations are not repeated when header-includes has them.
AlreadyLoaded(d) ==
    /\ d \in {"cleveref-package", "caption-package"}
    /\ CountOf(d, meta.header_includes) > 0

\* C12 as amended: every declaration is gated by one condition of its own
\* (unnumbered figures present gates two declarations, the caption package
\* and the no-prefix-caption environment; every other condition gates one),
\* independently of the other conditions, and a TeX run appends a gated
\* declaration exactly once, however many figures raised the flag (a
\* package declaration header-includes already holds is not appended);
\* nothing else is appended, and nothing before the builder ran.
C12_GatedDeclarations ==
    /\ \A n \in 1..Len(AddedDecls) : AddedDecls[n] \in AllDeclNames
    /\ (pc = "done" /\ fmt \in {"latex", "beamer"}) =>
          \A d \in AllDeclNames :
              CountOf(d, AddedDecls) =
                  IF GateOf(d) \in GatesRaised /\ ~AlreadyLoaded(d) THEN 1 ELSE 0
    /\ pc \notin {"dump", "done"} => AddedDecls = << >>

\* A TeX run over two unnumbered figures finished: the one flag they both
\* raised added the caption package and the environment, once each.
C12_Witness ==
    /\ pc = "done" /\ fmt = "latex" /\ Len(doc) = 2
    /\ figs[1].is_unnumbered /\ figs[2].is_unnumbered
    /\ GatesRaised = {"unnumbered figures"}
    /\ header_includes = <<"caption-package", "no-prefix-figure-caption-env">>

(* ------------------------------------------------------------------ *)
(* C13                                                                  *)
(* ------------------------------------------------------------------ *)

\* The paragraph of block k in the output, and the caption of its image.
ParaOf(k) == altered[k][CHOOSE n \in 1..Len(altered[k]) : altered[k][n].t = "Node"]
CaptionOf(k) == ParaOf(k).node.caption

IsMarkup(e) == e.t = "RawInline"

\* The caption without the inert inline markup around its prefix.
VisibleCaption(k) == SelectSeq(CaptionOf(k), LAMBDA e : ~IsMarkup(e))

\* The metadata sets the caption name to Fig.
CaptionNameIsFigDot ==
    meta.caption_name.p /\ meta.caption_name.s = <<"F", "i", "g", ".">>

\* C13: with the caption name set to Fig., the caption the filter writes
\* for a numbered or tagged figure begins with Fig. (for a TeX target the
\* prefix is left to the renderer, which takes it from the override
\* directive); a finished TeX run has added the caption-name override
\* directive exactly once and a run for another target never adds it.
C13_CaptionNameFigDot ==
    (CaptionNameIsFigDot /\ pc # "process") =>
        /\ \A k \in 1..Len(doc) :
              (Processed(k) /\ ~figs[k].is_unnumbered /\ fmt \notin {"latex", "beamer"}) =>
                  /\ VisibleCaption(k) # << >>
                  /\ VisibleCaption(k)[1] = [t |-> "Str", f |-> "", c |-> <<"F", "i", "g", ".">>]
        /\ (pc = "done" /\ fmt \in {"latex", "beamer"}) =>
              /\ CountOf("figurename", AddedDecls) = 1
              /\ \A k \in 1..Len(doc) :
                    (Processed(k) /\ ~figs[k].is_unnumbered) =>
                        CaptionOf(k)[1] = doc[k].caption[1]
        /\ fmt \notin {"latex", "beamer"} => CountOf("figurename", header_includes) = 0

\* An HTML run with the caption name Fig. numbered a figure: its caption
\* reads Fig. and its number inside the span, and nothing was added to
\* header-includes.
C13_Witness ==
    /\ CaptionNameIsFigDot /\ pc = "done" /\ fmt = "html"
    /\ Len(doc) = 1 /\ Labelled(doc[1]) /\ ~doc[1].hasTag
    /\ references[KeyOf(1)].isnum
    /\ Len(VisibleCaption(1)) > 3
    /\ VisibleCaption(1)[1].c = <<"F", "i", "g", ".">>
    /\ VisibleCaption(1)[3].c = IntToStr(references[KeyOf(1)].num) \o <<":">>
    /\ CaptionOf(1)[1].t = "RawInline"
    /\ header_includes = << >>

(* ------------------------------------------------------------------ *)
(* C14                                                                  *)
(* ------------------------------------------------------------------ *)

StrElt(cs) == [t |-> "Str", f |-> "", c |-> cs]
SpaceElt == [t |-> "Space", f |-> "", c |-> << >>]
MathElt(cs) == [t |-> "InlineMath", f |-> "", c |-> cs]

\* What an entry of the reference table holds, as text.
StoredText(e) == IF e.isnum THEN IntToStr(e.num) ELSE e.tag

\* The first walk visits the labelled figure k of a run for a target that is
\* not TeX-like.
RewritesCaption(k) ==
    AtFigure(k) /\ Labelled(doc[k]) /\ fmt \notin {"latex", "beamer"}

\* C14 as stated: for a target that is not TeX-like the caption of a
\* numbered or tagged figure becomes the caption name, a space, the value
\* stored in the reference table for the figure followed by a colon, a
\* space, and the original caption; fig:e tagged S1 is stored with the
\* string S1; the caption of an unnumbered figure is left as it was.
C14_CaptionShowsStoredValue ==
    [][ \A k \in 1..Len(doc) :
          /\ RewritesCaption(k) =>
                VisibleCaption(k)' =
                    << StrElt(captionname), SpaceElt,
                       StrElt(StoredText(references'[KeyOf(k)']) \o <<":">>), SpaceElt >>
                    \o doc[k].caption
          /\ (AtFigure(k) /\ Labelled(doc[k]) /\ doc[k].tag = <<"S", "1">>) =>
                references'[KeyOf(k)'] =
                    [isnum |-> FALSE, num |-> 0, tag |-> <<"S", "1">>, sec |-> doc[k].secno]
          /\ (AtFigure(k) /\ UnnumberedShape(doc[k])) =>
                CaptionOf(k)' = doc[k].caption ]_vars

\* The stored tag lies between two $ markers.
IsMathTag(e) == ~e.isnum /\ e.tag # << >> /\ e.tag[1] = "$" /\ e.tag[Len(e.tag)] = "$"

\* The characters n.. of a tag up to its closing marker, every space
\* preceded by a backslash.
RECURSIVE MathBody(_, _)
MathBody(tg, n) ==
    IF n >= Len(tg) THEN << >>
    ELSE (IF tg[n] = " " THEN <<"\\", " ">> ELSE << tg[n] >>) \o MathBody(tg, n + 1)

\* How a stored value is displayed in a caption.
DisplayElts(e) ==
    IF IsMathTag(e) THEN << MathElt(MathBody(e.tag, 2)), StrElt(<<":">>) >>
    ELSE << StrElt(StoredText(e) \o <<":">>) >>

\* C14 as amended: as stated, except that a stored tag that begins and ends
\* with $ is displayed as an inline mathematical expression (the tag
\* without the two markers, its spaces escaped) followed by a colon
\* instead of as literal text.
C14_CaptionDisplaysStoredValue ==
    [][ \A k \in 1..Len(doc) :
          /\ RewritesCaption(k) =>
                VisibleCaption(k)' =
                    << StrElt(captionname), SpaceElt >>
                    \o DisplayElts(references'[KeyOf(k)']) \o << SpaceElt >>
                    \o doc[k].caption
          /\ (AtFigure(k) /\ Labelled(doc[k]) /\ doc[k].tag = <<"S", "1">>) =>
                references'[KeyOf(k)'] =
                    [isnum |-> FALSE, num |-> 0, tag |-> <<"S", "1">>, sec |-> doc[k].secno]
          /\ (AtFigure(k) /\ UnnumberedShape(doc[k])) =>
                CaptionOf(k)' = doc[k].caption ]_vars

\* A docx run stored fig:e with the string S1 and its caption now starts
\* Figure S1: ahead of the original caption; the math-tagged figure after
\* it shows its tag as inline math.
C14_Witness ==
    /\ pc = "pass1" /\ i = 3 /\ fmt = "docx" /\ captionname = <<"F", "i", "g", "u", "r", "e">>
    /\ doc[1].id = <<"f", "i", "g", ":", "e">> /\ doc[1].tag = <<"S", "1">>
    /\ CaptionOf(1) =
          << StrElt(<<"F", "i", "g", "u", "r", "e">>), SpaceElt,
             StrElt(<<"S", "1", ":">>), SpaceElt >> \o doc[1].caption
    /\ doc[2].tag = <<"$", "x", " ", "y", "$">>
    /\ ~references[KeyOf(2)].isnum
    /\ CaptionOf(2)[3] = MathElt(<<"x", "\\", " ", "y">>)

(* ------------------------------------------------------------------ *)
(* C15                                                                  *)
(* ------------------------------------------------------------------ *)

\* C15: no step lowers the counter except the visit of a labelled figure
\* whose section id differs from the current section id, which restarts
\* it from 1; between two such visits the counter never decreases.
C15_CounterMonotone ==
    [][ Nreferences' < Nreferences =>
          \E k \in 1..Len(doc) :
              /\ AtFigure(k) /\ Labelled(doc[k])
              /\ doc[k].secno # cursec
              /\ cursec' = doc[k].secno
              /\ Nreferences' = IF ExplicitlyTagged(doc[k]) THEN 1 ELSE 2 ]_vars

\* Two numbered figures of one section took the counter to 3 and a tagged
\* figure of another section then reset it to 1.
C15_Witness ==
    /\ pc = "pass1" /\ i = 4
    /\ Labelled(doc[1]) /\ Labelled(doc[2]) /\ ExplicitlyTagged(doc[3])
    /\ doc[1].secno = doc[2].secno /\ doc[3].secno # doc[2].secno
    /\ references[KeyOf(2)].isnum /\ references[KeyOf(2)].num = 3
    /\ cursec = doc[3].secno
    /\ Nreferences = 1

(* ------------------------------------------------------------------ *)
(* C16                                                                  *)
(* ------------------------------------------------------------------ *)

\* A form of the option is no string.
HasNonStringForm(opt) == \E n \in 1..Len(opt.forms) : ~opt.forms[n].isStr

\* The option is given with a number of forms other than two, or with a
\* form that is no string.
WrongNumberOfForms(opt) == opt.p /\ (Len(opt.forms) # 2 \/ HasNonStringForm(opt))

\* Configuration resolution ended the run: nothing was classified, nothing
\* was recorded and no document was written.
AbortedBeforePassOne ==
    /\ pc = "aborted"
    /\ cursec = <<"N", "o", "n", "e">> /\ Nreferences = 0
    /\ references = << >>
    /\ \A k \in 1..Len(doc) : ~figs[k].is_fig /\ altered[k] = Untouched(doc[k])
    /\ ~stdout

\* C16 as stated: a plus-name or star-name option with a number of forms
\* other than two, or with a non-string form, aborts the run before the
\* first walk starts.
C16_WrongShapeAborts ==
    (pc # "process" /\ (WrongNumberOfForms(meta.plus_name) \/ WrongNumberOfForms(meta.star_name)))
        => AbortedBeforePassOne

\* The option is a list of a number of forms other than two, or has a form
\* that is no string.
WrongShape(opt) ==
    opt.p /\ ((opt.isList /\ Len(opt.forms) # 2) \/ HasNonStringForm(opt))

\* C16 as amended: a plus-name or star-name option given as a list of a
\* number of forms other than two, or with a non-string form, aborts the
\* run before the first walk starts: no figure is classified, no table
\* entry is written, no document is emitted.  A single string is the
\* singular form, not a wrong shape: an option so given (the other one
\* absent or well shaped) does not abort the run.
C16_WrongListAborts ==
    /\ (pc # "process" /\ (WrongShape(meta.plus_name) \/ WrongShape(meta.star_name)))
          => AbortedBeforePassOne
    /\ (pc # "process" /\ ~WrongShape(meta.plus_name) /\ ~WrongShape(meta.star_name))
          => ~AbortedBeforePassOne

\* A run whose star name is a list of three forms stopped ahead of a
\* figure of its document.
C16_Witness ==
    /\ AbortedBeforePassOne
    /\ meta.star_name.isList /\ Len(meta.star_name.forms) = 3
    /\ Len(doc) = 2 /\ Labelled(doc[1]) /\ doc[2].t = "Cite"
    /\ stderr = << >>

(* ------------------------------------------------------------------ *)
(* C17                                                                  *)
(* ------------------------------------------------------------------ *)

\* The second walk is over: every block was visited and every reference
\* placeholder replaced.
PassTwoFinished ==
    /\ pc \in {"pass2", "dump", "done"} /\ (pc = "pass2" => i > Len(doc))
    /\ \A k \in 1..Len(doc) : doc[k].t = "Cite" => altered[k][1].t = "Ref"

\* C17: the header-include builder never runs twice; it has run exactly
\* when the target is latex or beamer and the run is past its second walk
\* (so a finished TeX run ran it once, after pass 2), and a run for any
\* other target leaves the metadata as read, whatever flags were raised.
C17_BuilderOnceAtEnd ==
    /\ add_tex_calls \in {0, 1}
    /\ add_tex_calls = 1 <=> (fmt \in {"latex", "beamer"} /\ pc \in {"dump", "done"})
    /\ add_tex_calls = 1 => PassTwoFinished
    /\ pc = "done" => PassTwoFinished
    /\ add_tex_calls = 0 => header_includes = meta.header_includes
    /\ fmt \notin {"latex", "beamer"} => header_includes = meta.header_includes

\* A beamer run with an unnumbered figure and a reference finished: the
\* builder ran once, after the reference was replaced, and wrote to
\* header-includes.
C17_Witness ==
    /\ pc = "done" /\ fmt = "beamer" /\ Len(doc) = 2
    /\ doc[1].t = "Cite" /\ altered[1][1].t = "Ref"
    /\ figs[2].is_unnumbered /\ has_unnumbered_figures
    /\ add_tex_calls = 1
    /\ header_includes # meta.header_includes

(* ------------------------------------------------------------------ *)
(* C18                                                                  *)
(* ------------------------------------------------------------------ *)

\* A pair of quotes that can surround a tag: straight double, straight
\* single, curly double.
QuotePairs == { <<"\"", "\"">>, <<"'", "'">>, <<"ldquo", "rdquo">> }

\* The tag without one layer of surrounding quotes, if it has one.
OneLayerStripped(tg) ==
    IF Len(tg) >= 2 /\ <<tg[1], tg[Len(tg)]>> \in QuotePairs
    THEN SubSeq(tg, 2, Len(tg) - 1)
    ELSE tg

\* C18: a figure that carries a (non-empty) tag is classified as tagged
\* and recorded under its identifier with the tag less exactly one layer of
\* surrounding straight double, straight single or curly quotes, and with
\* the current section id; a tag without surrounding quotes is recorded as
\* it is.
C18_OneQuoteLayerStripped ==
    [][ \A k \in 1..Len(doc) :
          (AtFigure(k) /\ ExplicitlyTagged(doc[k]) /\ doc[k].tag # << >>) =>
              /\ figs'[k].is_tagged
              /\ KeyOf(k)' \in DOMAIN references'
              /\ references'[KeyOf(k)'] =
                    [isnum |-> FALSE, num |-> 0,
                     tag |-> OneLayerStripped(doc[k].tag), sec |-> cursec'] ]_vars

(* ------------------------------------------------------------------ *)
(* C19                                                                  *)
(* ------------------------------------------------------------------ *)

\* The blocks that stand for block k in the output: the paragraph, and the
\* format, text and argument of every raw block around it.
MarkupOf(k) ==
    [n \in 1..Len(altered[k]) |->
        IF altered[k][n].t = "Node" THEN <<"para">>
        ELSE <<altered[k][n].f, altered[k][n].text, altered[k][n].arg>>]

\* The figure is tagged: it carries a tag or one is hard-coded for it.
TaggedClass(node) == Labelled(node) /\ (node.hasTag \/ SynthesisOn)

LegacyTarget == StrLT(PANDOCVERSION, <<"1", ".", "1", "6">>)

NoPrefixEnvelope ==
    << <<"tex", "begin{fignos:no-prefix-figure-caption}", << >> >>, <<"para">>,
       <<"tex", "end{fignos:no-prefix-figure-caption}", << >> >> >>
TaggedEnvelope(tg) ==
    << <<"tex", "begin{fignos:tagged-figure}", tg>>, <<"para">>,
       <<"tex", "end{fignos:tagged-figure}", << >> >> >>
Bookmarks(id) ==
    << <<"openxml", "w:bookmarkStart", id>>, <<"para">>,
       <<"openxml", "w:bookmarkEnd", << >> >> >>
Anchored(id) == << <<"html", "a name", id>>, <<"para">> >>

\* The first walk visits the figure k, which _process_figure accepts.
MarksUp(k) == AtFigure(k) /\ doc[k].t = "Fig" /\ ~EmptyTagged(doc[k])

\* C19 as stated: the markup depends on class and format alone: the
\* no-prefix envelope for unnumbered and TeX, the tagged envelope with the
\* stored tag (and the flag) for tagged and TeX, the bookmarks keyed by the
\* identifier for docx, an anchor for the HTML family on a legacy pandoc
\* (for a figure that has an identifier), and nothing for any other
\* combination.
C19_MarkupTable ==
    [][ \A k \in 1..Len(doc) :
          MarksUp(k) =>
              /\ MarkupOf(k)' =
                    IF fmt \in {"latex", "beamer"}
                    THEN IF UnnumberedShape(doc[k]) THEN NoPrefixEnvelope
                         ELSE IF TaggedClass(doc[k])
                              THEN TaggedEnvelope(references'[KeyOf(k)'].tag)
                              ELSE << <<"para">> >>
                    ELSE IF ~doc[k].hasAttrs THEN << <<"para">> >>
                    ELSE IF fmt = "docx" THEN Bookmarks(KeyOf(k)')
                    ELSE IF fmt \in {"html", "html5", "epub", "epub2", "epub3"} /\ LegacyTarget
                    THEN Anchored(KeyOf(k)')
                    ELSE << <<"para">> >>
              /\ has_tagged_figures' =
                    (has_tagged_figures \/
                       (fmt \in {"latex", "beamer"} /\ TaggedClass(doc[k]))) ]_vars

\* C19 as amended: as stated, with the bookmarks and the anchor only for a
\* figure that is not unnumbered: an unnumbered figure gets the no-prefix
\* envelope for a TeX target and no markup for any other target.
C19_MarkupByClassAndFormat ==
    [][ \A k \in 1..Len(doc) :
          MarksUp(k) =>
              /\ MarkupOf(k)' =
                    IF UnnumberedShape(doc[k])
                    THEN IF fmt \in {"latex", "beamer"} THEN NoPrefixEnvelope
                         ELSE << <<"para">> >>
                    ELSE IF fmt \in {"latex", "beamer"}
                    THEN IF TaggedClass(doc[k])
                         THEN TaggedEnvelope(references'[KeyOf(k)'].tag)
                         ELSE << <<"para">> >>
                    ELSE IF fmt = "docx" THEN Bookmarks(KeyOf(k)')
                    ELSE IF fmt \in {"html", "html5", "epub", "epub2", "epub3"} /\ LegacyTarget
                    THEN Anchored(KeyOf(k)')
                    ELSE << <<"para">> >>
              /\ has_tagged_figures' =
                    (has_tagged_figures \/
                       (fmt \in {"latex", "beamer"} /\ TaggedClass(doc[k]))) ]_vars

\* A latex run wrapped an unnumbered figure in the no-prefix envelope and a
\* tagged figure in the tagged envelope with its tag, and raised the flag.
C19_Witness ==
    /\ pc = "pass1" /\ i = 3 /\ fmt = "latex"
    /\ UnnumberedShape(doc[1]) /\ MarkupOf(1) = NoPrefixEnvelope
    /\ ExplicitlyTagged(doc[2]) /\ MarkupOf(2) = TaggedEnvelope(<<"S", "1">>)
    /\ has_tagged_figures /\ has_unnumbered_figures

(* ------------------------------------------------------------------ *)
(* C20                                                                  *)
(* ------------------------------------------------------------------ *)

\* Figure k returns to a section an earlier labelled figure was in, from
\* another section.
ReEnters(k) ==
    /\ AtFigure(k) /\ Labelled(doc[k])
    /\ doc[k].secno # cursec
    /\ \E j \in 1..(k - 1) : Labelled(doc[j]) /\ doc[j].secno = doc[k].secno

\* C20: the reset looks at the most recent section id only: a figure that
\* returns to a section visited before resets the counter like a figure of
\* a new section, whatever the counter reached during the first stay; an
\* untagged figure is recorded with the restarted count, not with the one
\* that follows the first stay.
C20_ReEntryResets ==
    [][ \A k \in 1..Len(doc) :
          ReEnters(k) =>
              /\ cursec' = doc[k].secno
              /\ Nreferences' = IF ExplicitlyTagged(doc[k]) THEN 1 ELSE 2
              /\ (~doc[k].hasTag /\ ~SynthesisOn) =>
                    references'[KeyOf(k)'] =
                        [isnum |-> TRUE, num |-> Nreferences', tag |-> << >>,
                         sec |-> doc[k].secno]
              /\ (~doc[k].hasTag /\ SynthesisOn) =>
                    references'[KeyOf(k)'].tag = doc[k].secno \o <<".", "1">> ]_vars

\* Figures of sections 1, 2 and 1 again were numbered: the third holds the
\* number the first one got, not the next one.
C20_Witness ==
    /\ pc = "pass1" /\ i = 4 /\ ~SynthesisOn
    /\ \A k \in 1..3 : Labelled(doc[k]) /\ ~doc[k].hasTag
    /\ doc[1].secno = <<"1">> /\ doc[2].secno = <<"2">> /\ doc[3].secno = <<"1">>
    /\ KeyOf(1) # KeyOf(3)
    /\ references[KeyOf(3)].num = references[KeyOf(1)].num
    /\ Nreferences = references[KeyOf(3)].num

(* ------------------------------------------------------------------ *)
(* C21                                                                  *)
(* ------------------------------------------------------------------ *)

\* Some block of the output opens the environment env.
EnvelopeEmitted(env) ==
    \E k \in 1..Len(doc) : \E n \in 1..Len(altered[k]) :
        altered[k][n].t = "RawBlock" /\ altered[k][n].text = env

\* C21: in a finished TeX run, an output that holds a no-prefix-caption
\* envelope comes with the caption package (added by the run, or already in
\* header-includes) and with the definition of the no-prefix-caption
\* environment added by the run, and an output that holds a tagged-figure
\* envelope comes with the definition of the tagged-figure environment
\* added by the run; envelopes are written for a TeX target only, and the
\* flag behind each declaration is up from the visit that wrote the
\* envelope.
C21_EnvelopesAreDeclared ==
    /\ EnvelopeEmitted("begin{fignos:no-prefix-figure-caption}") =>
          /\ fmt \in {"latex", "beamer"}
          /\ has_unnumbered_figures
          /\ pc = "done" =>
                /\ CountOf("caption-package", header_includes) >= 1
                /\ CountOf("no-prefix-figure-caption-env", AddedDecls) = 1
    /\ EnvelopeEmitted("begin{fignos:tagged-figure}") =>
          /\ fmt \in {"latex", "beamer"}
          /\ has_tagged_figures
          /\ pc = "done" =>
                CountOf("tagged-figure-env", AddedDecls) = 1

\* A latex run whose output holds both envelopes finished with the caption
\* package and the two environment definitions in header-includes.
C21_Witness ==
    /\ pc = "done" /\ fmt = "latex" /\ stdout
    /\ EnvelopeEmitted("begin{fignos:no-prefix-figure-caption}")
    /\ EnvelopeEmitted("begin{fignos:tagged-figure}")
    /\ header_includes =
          <<"caption-package", "no-prefix-figure-caption-env", "tagged-figure-env">>

====
